---------------------------- MODULE Spec2Model ----------------------------
(***************************************************************************)
(* Corriente Sound: the similarity resolution engine of the Express proxy. *)
(*                                                                         *)
(* Text is modelled as a tuple of one-character strings, so that           *)
(* toLowerCase, substring containment and template concatenation are       *)
(* computed, not assumed.  Numbers with a fractional part are fixed point: *)
(* one unit of a feature, of a BPM, of a dB or of a score is Unit.         *)
(* Math.random() is a draw r in 0..9999 standing for r/10000.              *)
(***************************************************************************)
EXTENDS Integers, Sequences, FiniteSets, TLC

Unit == 100 * 1000

Min(a, b) == IF a <= b THEN a ELSE b
Max(a, b) == IF a >= b THEN a ELSE b
Abs(a) == IF a >= 0 THEN a ELSE 0 - a

\* An optional value (undefined / null in the source) is <<>>, a present one <<v>>.
Undefined == <<>>
Some(v) == <<v>>

(***************************************************************************)
(* Strings                                                                 *)
(***************************************************************************)
Upper == <<"A","B","C","D","E","F","G","H","I","J","K","L","M",
           "N","O","P","Q","R","S","T","U","V","W","X","Y","Z">>
Lower == <<"a","b","c","d","e","f","g","h","i","j","k","l","m",
           "n","o","p","q","r","s","t","u","v","w","x","y","z">>

LowerOf == [ c \in { Upper[i] : i \in 1..26 } |->
               Lower[CHOOSE i \in 1..26 : Upper[i] = c] ]

LowerChar(c) == IF c \in DOMAIN LowerOf THEN LowerOf[c] ELSE c

toLowerCase(s) == [i \in 1..Len(s) |-> LowerChar(s[i])]

\* String.prototype.includes: w occurs in s as a contiguous substring.
includes(s, w) ==
    \E i \in 0..(Len(s) - Len(w)) : \A j \in 1..Len(w) : s[i + j] = w[j]

(***************************************************************************)
(* generateIntelligentFeatures                                             *)
(***************************************************************************)
energeticWords ==
    { <<"d","a","n","c","e">>,
      <<"p","a","r","t","y">>,
      <<"p","u","m","p">>,
      <<"w","i","l","d">>,
      <<"f","i","r","e">>,
      <<"e","l","e","c","t","r","i","c">>,
      <<"p","o","w","e","r">>,
      <<"e","n","e","r","g","y">>,
      <<"r","o","c","k">>,
      <<"m","e","t","a","l">> }

chillWords ==
    { <<"c","h","i","l","l">>,
      <<"r","e","l","a","x">>,
      <<"c","a","l","m">>,
      <<"s","l","o","w">>,
      <<"s","o","f","t">>,
      <<"g","e","n","t","l","e">>,
      <<"p","e","a","c","e">>,
      <<"q","u","i","e","t">>,
      <<"a","m","b","i","e","n","t">> }

sadWords ==
    { <<"s","a","d">>,
      <<"c","r","y">>,
      <<"t","e","a","r","s">>,
      <<"l","o","n","e","l","y">>,
      <<"h","u","r","t">>,
      <<"p","a","i","n">>,
      <<"g","o","o","d","b","y","e">>,
      <<"m","i","s","s">>,
      <<"s","o","r","r","y">> }

happyWords ==
    { <<"h","a","p","p","y">>,
      <<"j","o","y">>,
      <<"l","o","v","e">>,
      <<"s","m","i","l","e">>,
      <<"s","u","n","s","h","i","n","e">>,
      <<"b","r","i","g","h","t">>,
      <<"c","e","l","e","b","r","a","t","i","o","n">>,
      <<"p","a","r","t","y">> }

romanticWords ==
    { <<"l","o","v","e">>,
      <<"h","e","a","r","t">>,
      <<"r","o","m","a","n","c","e">>,
      <<"k","i","s","s">>,
      <<"t","o","g","e","t","h","e","r">>,
      <<"f","o","r","e","v","e","r">>,
      <<"b","e","a","u","t","i","f","u","l">>,
      <<"b","a","b","y">> }

\* words.some(word => trackName.includes(word))
someIncluded(words, trackName) == \E w \in words : includes(trackName, w)

\* Object.keys(features), in insertion order.
FeatureKeys ==
    << "acousticness", "danceability", "energy", "instrumentalness", "liveness",
       "loudness", "speechiness", "tempo", "valence" >>

KeySet == { FeatureKeys[i] : i \in 1..Len(FeatureKeys) }

\* The places where Math.random() is called: once in the energetic branch,
\* then once per key of the jitter loop.
DrawSites == KeySet \cup {"energetic"}

baseFeatures ==
    [ acousticness     |-> 30000,
      danceability     |-> 50000,
      energy           |-> 50000,
      instrumentalness |-> 10000,
      liveness         |-> 10000,
      loudness         |-> 0 - 800000,
      speechiness      |-> 5000,
      tempo            |-> 120 * Unit,
      valence          |-> 50000 ]

\* lines 678-682; 130 + Math.random() * 40 is 130 * Unit + 400 * r.
applyEnergetic(f, r) ==
    [ f EXCEPT !.energy       = Min(90000, f.energy + 30000),
               !.danceability = Min(90000, f.danceability + 20000),
               !.tempo        = Max(f.tempo, 130 * Unit + 400 * r) ]

\* lines 684-688
applyChill(f) ==
    [ f EXCEPT !.energy       = Max(10000, f.energy - 30000),
               !.acousticness = Min(80000, f.acousticness + 30000),
               !.tempo        = Max(70 * Unit, f.tempo - 30 * Unit) ]

\* lines 690-693
applySad(f) ==
    [ f EXCEPT !.valence = Max(10000, f.valence - 40000),
               !.energy  = Max(20000, f.energy - 20000) ]

\* lines 695-698
applyHappy(f) ==
    [ f EXCEPT !.valence = Min(90000, f.valence + 30000),
               !.energy  = Min(80000, f.energy + 10000) ]

\* lines 700-703
applyRomantic(f) ==
    [ f EXCEPT !.valence      = Min(80000, f.valence + 20000),
               !.acousticness = Min(70000, f.acousticness + 20000) ]

\* Lines 650-651 and the conditions of lines 678-706: which keyword sets the
\* lower-cased title matches, and whether the lower-cased artist name holds
\* "dj" or "edm".
matches(t) ==
    LET trackName  == toLowerCase(t.name)
        artistName == toLowerCase(t.artists[1])
    IN  [ energetic |-> someIncluded(energeticWords, trackName),
          chill     |-> someIncluded(chillWords, trackName),
          sad       |-> someIncluded(sadWords, trackName),
          happy     |-> someIncluded(happyWords, trackName),
          romantic  |-> someIncluded(romanticWords, trackName),
          djArtist  |-> \/ includes(artistName, <<"d","j">>)
                        \/ includes(artistName, <<"e","d","m">>) ]

\* keywordAdjust with every matched set adjusting the baseline on its own,
\* a later set's fields replacing an earlier set's.
keywordAdjustFromBase(f, m, r) ==
    LET e == IF m.energetic THEN applyEnergetic(f, r) ELSE f
        c == IF m.chill THEN applyChill(f) ELSE f
        s == IF m.sad THEN applySad(f) ELSE f
        h == IF m.happy THEN applyHappy(f) ELSE f
        o == IF m.romantic THEN applyRomantic(f) ELSE f
        last(k) == IF o[k] # f[k] THEN o[k]
                   ELSE IF h[k] # f[k] THEN h[k]
                   ELSE IF s[k] # f[k] THEN s[k]
                   ELSE IF c[k] # f[k] THEN c[k]
                   ELSE e[k]
    IN  [ k \in DOMAIN f |-> last(k) ]

\* The five keyword tests, in source order, each on the result of the one before.
keywordAdjust(f, m, r) ==
    LET f1 == IF m.energetic THEN applyEnergetic(f, r) ELSE f
        f2 == IF m.chill THEN applyChill(f1) ELSE f1
        f3 == IF m.sad THEN applySad(f2) ELSE f2
        f4 == IF m.happy THEN applyHappy(f3) ELSE f3
    IN  IF m.romantic THEN applyRomantic(f4) ELSE f4

\* lines 706-710
artistAdjust(f, m) ==
    IF m.djArtist
    THEN [ f EXCEPT !.danceability = Min(90000, f.danceability + 30000),
                    !.energy       = Min(90000, f.energy + 20000),
                    !.tempo        = Max(f.tempo, 128 * Unit) ]
    ELSE f

\* lines 713-716
durationAdjust(f, duration) ==
    IF duration > 300000
    THEN [ f EXCEPT !.acousticness     = Min(70000, f.acousticness + 20000),
                    !.instrumentalness = Min(40000, f.instrumentalness + 10000) ]
    ELSE f

\* lines 719-722
popularityAdjust(f, popularity) ==
    IF popularity > 70
    THEN [ f EXCEPT !.danceability = Min(80000, f.danceability + 10000),
                    !.energy       = Min(80000, f.energy + 10000) ]
    ELSE f

\* jitterKey with the test of line 726 inverted.
jitterKeyInverted(key, v, r) ==
    IF key = "tempo"
    THEN Max(0, Min(Unit, v + (r - 5000)))
    ELSE Max(60 * Unit, Min(200 * Unit, v + (100 * r - 500000)))

\* jitterKey leaving loudness, which is in dB, out of the clamp to [0,1].
jitterKeyLoudnessInDb(key, v, r) ==
    IF key = "loudness" THEN v + (r - 5000)
    ELSE IF key # "tempo"
    THEN Max(0, Min(Unit, v + (r - 5000)))
    ELSE Max(60 * Unit, Min(200 * Unit, v + (100 * r - 500000)))

\* lines 725-733; (Math.random() - 0.5) * 0.1 is r - 5000 units,
\* (Math.random() - 0.5) * 10 is 100 * r - 500000 units.
jitterKey(key, v, r) ==
    IF key # "tempo"
    THEN Max(0, Min(Unit, v + (r - 5000)))
    ELSE Max(60 * Unit, Min(200 * Unit, v + (100 * r - 500000)))

jitter(f, d) == [ k \in KeySet |-> jitterKey(k, f[k], d[k]) ]

\* Math.round(x * 1000) / 1000: to the nearest thousandth, halves upwards.
round3(v) == ((v + 50) \div 100) * 100

roundAll(f) == [ k \in KeySet |-> round3(f[k]) ]

\* x || dflt for a numeric field: undefined and 0 are both falsy.
orDefault(opt, dflt) == IF opt = Undefined \/ opt[1] = 0 THEN dflt ELSE opt[1]

\* The vector before the jitter loop (lines 654-722), for a track whose
\* keyword matches are m.
preJitterFeatures(t, m, d) ==
    LET popularity == orDefault(t.popularity, 50)
        duration   == orDefault(t.duration_ms, 180000)
    IN  popularityAdjust(
          durationAdjust(
            artistAdjust(keywordAdjust(baseFeatures, m, d["energetic"]), m),
            duration),
          popularity)

\* The vector at the end of each stage before the jitter loop: after the
\* keyword tests (line 703), the artist test (710), the duration test (716)
\* and the popularity test (722).
stagesOf(t, m, d) ==
    LET keywords == keywordAdjust(baseFeatures, m, d["energetic"])
        artist   == artistAdjust(keywords, m)
        duration == durationAdjust(artist, orDefault(t.duration_ms, 180000))
    IN  [ keywords   |-> keywords,
          artist     |-> artist,
          duration   |-> duration,
          popularity |-> popularityAdjust(duration, orDefault(t.popularity, 50)) ]

\* Lines 724-738 on the vector f.
jitterAndRound(f, d) == roundAll(jitter(f, d))

generateIntelligentFeatures(t, d) ==
    jitterAndRound(preJitterFeatures(t, matches(t), d), d)

(***************************************************************************)
(* Inputs of the estimator                                                 *)
(***************************************************************************)
\* Math.random() at the two ends of [0, 1).
RandomDraws == {0, 9999}

TrackNames ==
    { <<"H","a","p","p","y"," ","D","a","n","c","e"," ","P","a","r","t","y">>,
      <<"C","h","i","l","l"," ","L","o","v","e">>,
      <<"M","i","s","s","i","n","g"," ","Y","o","u">>,
      <<"B","l","u","e"," ","M","o","o","n">>,
      <<"S","L","O","W"," ","F","I","R","E">> }

ArtistNames ==
    { <<"D","J"," ","T","e","s","t">>,
      <<"T","h","e"," ","B","a","n","d">> }

Popularities == { Undefined, Some(0), Some(70), Some(80) }

Durations == { Undefined, Some(200000), Some(300001) }

\* trackData.artists[0] is artists[1] here: sequences start at 1.
EstimatorTracks ==
    [ name : TrackNames, artists : { <<a>> : a \in ArtistNames },
      popularity : Popularities, duration_ms : Durations ]


(***************************************************************************)
(* getGenreFromFeatures, getFeatureKeywords                                *)
(***************************************************************************)
\* getGenreFromFeatures with the thresholds included (>= and <=).
getGenreInclusive(f) ==
    IF f.energy >= 80000 /\ f.danceability >= 70000 THEN "electronic dance"
    ELSE IF f.energy >= 70000 /\ f.tempo >= 140 * Unit THEN "rock"
    ELSE IF f.acousticness >= 60000 THEN "folk"
    ELSE IF f.danceability >= 70000 THEN "pop"
    ELSE IF f.valence <= 30000 THEN "indie"
    ELSE IF f.energy <= 40000 THEN "ambient"
    ELSE "pop"

getGenreFromFeatures(f) ==
    IF f.energy > 80000 /\ f.danceability > 70000 THEN "electronic dance"
    ELSE IF f.energy > 70000 /\ f.tempo > 140 * Unit THEN "rock"
    ELSE IF f.acousticness > 60000 THEN "folk"
    ELSE IF f.danceability > 70000 THEN "pop"
    ELSE IF f.valence < 30000 THEN "indie"
    ELSE IF f.energy < 40000 THEN "ambient"
    ELSE "pop"

getFeatureKeywords(f) ==
    LET keywords ==
            (IF f.energy > 70000 THEN <<"energetic", "upbeat", "powerful">> ELSE <<>>)
         \o (IF f.energy < 30000 THEN <<"calm", "mellow", "peaceful">> ELSE <<>>)
         \o (IF f.danceability > 70000 THEN <<"danceable", "groovy", "rhythm">> ELSE <<>>)
         \o (IF f.danceability < 30000 THEN <<"contemplative", "thoughtful">> ELSE <<>>)
         \o (IF f.valence > 70000 THEN <<"happy", "joyful", "cheerful">> ELSE <<>>)
         \o (IF f.valence < 30000 THEN <<"melancholy", "emotional", "introspective">> ELSE <<>>)
         \o (IF f.acousticness > 60000 THEN <<"acoustic", "unplugged", "intimate">> ELSE <<>>)
         \o (IF f.acousticness < 20000 THEN <<"electric", "produced", "synthetic">> ELSE <<>>)
         \o (IF f.tempo > 140 * Unit THEN <<"fast", "driving">> ELSE <<>>)
         \o (IF f.tempo < 80 * Unit THEN <<"slow", "ballad">> ELSE <<>>)
    IN  IF Len(keywords) > 0 THEN keywords ELSE <<"similar", "like">>

(***************************************************************************)
(* calculateSimilarityScore, removeDuplicateTracks                         *)
(***************************************************************************)
\* The score in units of 1/Unit.  |popularity difference| / 100 * 0.1 is
\* 100 units per point; min(durationDiff, 0.5) * 0.1 is 5000 units once the
\* difference reaches half the seed's duration and |diff| * 10000 / duration
\* units below that.
\* calculateSimilarityScore comparing the artists' names as they are spelled.
scoreCaseSensitive(targetFeatures, candidateTrack, originalTrack) ==
    LET dur == originalTrack.duration_ms[1]
        diff == Abs(candidateTrack.duration_ms[1] - dur)
    IN  Max(0, Unit - (IF candidateTrack.artists[1] = originalTrack.artists[1]
                       THEN 30000 ELSE 0)
                    - Abs(candidateTrack.popularity[1] - originalTrack.popularity[1]) * 100
                    - (IF 2 * diff >= dur THEN 5000 ELSE (diff * 10000) \div dur)
                    + (IF candidateTrack.preview_url # Undefined THEN 10000 ELSE 0)
                    + (IF originalTrack.explicit = candidateTrack.explicit THEN 5000 ELSE 0))

calculateSimilarityScore(targetFeatures, candidateTrack, originalTrack) ==
    LET sameArtist ==
            toLowerCase(candidateTrack.artists[1]) = toLowerCase(originalTrack.artists[1])
        popularityDiff ==
            Abs(candidateTrack.popularity[1] - originalTrack.popularity[1]) * 100
        dur == originalTrack.duration_ms[1]
        diff == Abs(candidateTrack.duration_ms[1] - dur)
        durationTerm == IF 2 * diff >= dur THEN 5000 ELSE (diff * 10000) \div dur
        score ==
            Unit - (IF sameArtist THEN 30000 ELSE 0)
                 - popularityDiff
                 - durationTerm
                 + (IF candidateTrack.preview_url # Undefined THEN 10000 ELSE 0)
                 + (IF originalTrack.explicit = candidateTrack.explicit THEN 5000 ELSE 0)
    IN  Max(0, score)

\* dedupKey without the two toLowerCase calls.
dedupKeyCaseSensitive(track) == track.name \o <<"-">> \o track.artists[1]

\* `${track.name.toLowerCase()}-${track.artists[0].name.toLowerCase()}`
dedupKey(track) ==
    toLowerCase(track.name) \o <<"-">> \o toLowerCase(track.artists[1])

\* tracks.filter(...) with the Set of keys seen so far: the first track of
\* each key is kept, in order.
RECURSIVE filterUnseen(_, _)
filterUnseen(tracks, seen) ==
    IF tracks = <<>> THEN <<>>
    ELSE LET key == dedupKey(Head(tracks))
         IN  IF key \in seen
             THEN filterUnseen(Tail(tracks), seen)
             ELSE <<Head(tracks)>> \o filterUnseen(Tail(tracks), seen \cup {key})

removeDuplicateTracks(tracks) == filterUnseen(tracks, {})

\* The comparator with its operands swapped: ascending.
compareAscending(a, b) == a._similarity - b._similarity

\* The comparator of line 916: negative when a goes before b.
compareSimilarity(a, b) == b._similarity - a._similarity

\* A sort that puts an element before the elements it ties with.
RECURSIVE insertBeforeTies(_, _)
insertBeforeTies(sorted, x) ==
    IF sorted = <<>> THEN <<x>>
    ELSE IF Head(sorted)._similarity > x._similarity
         THEN <<Head(sorted)>> \o insertBeforeTies(Tail(sorted), x)
         ELSE <<x>> \o sorted

\* Array.prototype.sort is stable: an element goes after every element
\* that the comparator does not put strictly after it.
RECURSIVE insertSorted(_, _)
insertSorted(sorted, x) ==
    IF sorted = <<>> THEN <<x>>
    ELSE IF compareSimilarity(Head(sorted), x) <= 0
         THEN <<Head(sorted)>> \o insertSorted(Tail(sorted), x)
         ELSE <<x>> \o sorted

RECURSIVE sortBySimilarity(_)
sortBySimilarity(tracks) ==
    IF tracks = <<>> THEN <<>>
    ELSE insertSorted(sortBySimilarity(SubSeq(tracks, 1, Len(tracks) - 1)),
                      tracks[Len(tracks)])

\* Array.prototype.slice(0, end): a negative end counts from the end.
slice0(arr, end) ==
    LET e == IF end < 0 THEN Max(Len(arr) + end, 0) ELSE Min(end, Len(arr))
    IN  SubSeq(arr, 1, e)

(***************************************************************************)
(* The search strategies of findSimilarTracksViaSpotify                    *)
(***************************************************************************)
\* release_date.split('-')[0]
RECURSIVE beforeDash(_)
beforeDash(s) ==
    IF s = <<>> \/ Head(s) = "-" THEN <<>> ELSE <<Head(s)>> \o beforeDash(Tail(s))

Digits == <<"0","1","2","3","4","5","6","7","8","9">>

\* The number a string of decimal digits converts to.
RECURSIVE toNumber(_)
toNumber(s) ==
    IF s = <<>> THEN 0
    ELSE 10 * toNumber(SubSeq(s, 1, Len(s) - 1))
         + (CHOOSE d \in 0..9 : Digits[d + 1] = s[Len(s)])

\* line 845: the year as a string, or null.
releaseYearOf(originalTrack) ==
    IF originalTrack.album.release_date # Undefined
       /\ originalTrack.album.release_date[1] # <<>>
    THEN Some(beforeDash(originalTrack.album.release_date[1]))
    ELSE Undefined

\* A query without its NOT part.
QueryWithoutNot(field, value, notField, notValue) ==
    [ field |-> field, value |-> value, notField |-> "", notValue |-> <<>> ]

\* A query is the text it searches for and the text after NOT.
Query(field, value, notField, notValue) ==
    [ field |-> field, value |-> value, notField |-> notField, notValue |-> notValue ]

\* lines 848-878: the five strategies, the era one with a null query when the
\* year is unknown, then .filter(strategy => strategy.query).
allStrategies(originalTrack, audioFeatures) ==
    LET artistName  == originalTrack.artists[1]
        trackName   == originalTrack.name
        albumName   == originalTrack.album.name
        releaseYear == releaseYearOf(originalTrack)
        truthyYear  == releaseYear # Undefined /\ releaseYear[1] # <<>>
        decade      == (toNumber(releaseYear[1]) \div 10) * 10
    IN  << [ query |-> Some(Query("genre", getGenreFromFeatures(audioFeatures),
                                  "artist", artistName)),
             description |-> "Similar genre, different artist" ],
           [ query |-> Some(Query("artist", artistName, "track", trackName)),
             description |-> "Same artist, different song" ],
           [ query |-> Some(Query("keywords", getFeatureKeywords(audioFeatures),
                                  "artist", artistName)),
             description |-> "Feature-based keywords" ],
           [ query |-> IF truthyYear
                       THEN Some(Query("year", <<decade, decade + 9>>,
                                       "artist", artistName))
                       ELSE Undefined,
             description |-> "Same decade" ],
           [ query |-> Some(Query("album", albumName, "track", trackName)),
             description |-> "Same album" ] >>

\* searchStrategiesOf without the filter of line 878.
searchStrategiesUnfiltered(originalTrack, audioFeatures) ==
    allStrategies(originalTrack, audioFeatures)

searchStrategiesOf(originalTrack, audioFeatures) ==
    SelectSeq(allStrategies(originalTrack, audioFeatures),
              LAMBDA strategy : strategy.query # Undefined)

(***************************************************************************)
(* The catalog: what the upstream service can answer                       *)
(***************************************************************************)
\* The most items one search reply of the catalog holds here (the request
\* asks for limit=10).
MaxItems == 3

Track(id, name, artists, releaseDate, popularity, duration, explicit, preview) ==
    [ id          |-> id,
      name        |-> name,
      artists     |-> artists,
      album       |-> [ name |-> <<"L","p">>, release_date |-> releaseDate ],
      popularity  |-> Some(popularity),
      duration_ms |-> Some(duration),
      explicit    |-> explicit,
      preview_url |-> preview ]

\* The two seed tracks a request can name: one with a release date, one
\* without.
Seed1 ==
    Track(1, <<"H","e","y">>, << <<"A","n","n">> >>,
          Some(<<"1","9","8","7","-","0","5","-","0","1">>),
          60, 200000, FALSE, Undefined)

Seed2 ==
    Track(2, <<"Y","o">>, << <<"D","J"," ","B","o">> >>,
          Undefined, 80, 250000, TRUE, Some("url"))

\* A seed whose release date has the precision of a year, the first year of
\* a decade.
Seed3 ==
    Track(3, <<"S","u","n">>, << <<"E","v","e">> >>,
          Some(<<"2","0","0","0">>), 40, 180000, FALSE, Some("url"))

SeedTracks == { Seed1, Seed2, Seed3 }

TrackIds == { t.id : t \in SeedTracks }

trackById(id) == CHOOSE t \in SeedTracks : t.id = id

\* The j-th hit of the i-th strategy's usual reply.
Hit(i, j) ==
    Track(10 * i + j, <<Lower[i], Lower[j]>>, << <<"X", Digits[j + 1]>> >>,
          Undefined, 60 + 10 * ((i + j) % 3), 200000 + 20000 * (j % 2),
          j = 2, IF i % 2 = 1 THEN Some("url") ELSE Undefined)

\* Hit(1, 1) again under another identifier, in another letter case.
CaseTwin ==
    Track(61, <<"A","A">>, << <<"x","1">> >>, Undefined, 60, 200000, FALSE, Undefined)

\* Two tracks with the same score against either seed, the larger identifier first.
TieHigh == Track(98, <<"z","z">>, << <<"Q">> >>, Undefined, 70, 200000, FALSE, Undefined)
TieLow  == Track(97, <<"z","y">>, << <<"Q">> >>, Undefined, 70, 200000, FALSE, Undefined)

\* Two different tracks whose titles and artists join to the same text.
DashLeft  == Track(81, <<"a","-","b">>, << <<"c">> >>, Undefined, 50, 400000, TRUE, Undefined)
DashRight == Track(82, <<"a">>, << <<"b","-","c">> >>, Undefined, 90, 200000, TRUE, Some("url"))

\* A hit without artists: artists[0].name throws a TypeError.
NoArtist == Track(92, <<"n","o">>, <<>>, Undefined, 60, 200000, FALSE, Undefined)
Plain    == Track(91, <<"o","k">>, << <<"P">> >>, Undefined, 60, 200000, FALSE, Undefined)

\* A hit by the artist of Seed1, in another letter case.
SameArtist == Track(95, <<"s","a">>, << <<"A","N","N">> >>, Undefined, 60, 200000, FALSE, Undefined)

\* The five strategies by position in the source's list.
Descriptions ==
    << "Similar genre, different artist", "Same artist, different song",
       "Feature-based keywords", "Same decade", "Same album" >>

ordinalOf(description) == CHOOSE i \in 1..5 : Descriptions[i] = description

\* The item lists the catalog can answer a strategy's query with, for the
\* seed the query was built from: the usual hits, or a list that holds the
\* seed itself, twins, ties, or a malformed hit.
itemsOf(ordinal, tag, seed) ==
    IF tag = "A"
    THEN [ j \in 1..Min(MaxItems, 4) |-> Hit(ordinal, j) ]
    ELSE CASE ordinal = 1 -> << TieHigh, TieLow >>
           [] ordinal = 2 -> << seed, CaseTwin, Hit(1, 1) >>
           [] ordinal = 3 -> << DashLeft, DashRight >>
           [] ordinal = 4 -> << Plain, NoArtist >>
           [] ordinal = 5 -> << SameArtist, seed >>

\* A reply to an upstream request: fetch rejects ("throw"), the status is not
\* a success ("status"), the body is not the expected JSON ("badjson"), or
\* it is a success; for a search, with one of the two item lists.
FailureTags == { "throw", "status", "badjson" }
SearchTags == FailureTags \cup { "A", "B" }

(***************************************************************************)
(* Lines 883-912: what one strategy's reply adds to allCandidates           *)
(***************************************************************************)
\* tracks.forEach(...): every track gets _strategy and _similarity.
decorate(track, strategy, originalTrack, audioFeatures) ==
    [ id          |-> track.id,
      name        |-> track.name,
      artists     |-> track.artists,
      _strategy   |-> strategy.description,
      _similarity |-> calculateSimilarityScore(audioFeatures, track, originalTrack) ]

\* strategyTracks without the filter of line 896.
strategyTracksUnfiltered(tag, strategy, originalTrack, audioFeatures) ==
    IF tag \in FailureTags THEN <<>>
    ELSE LET tracks == itemsOf(ordinalOf(strategy.description), tag, originalTrack)
         IN  IF \E k \in 1..Len(tracks) : tracks[k].artists = <<>>
             THEN <<>>
             ELSE [ k \in 1..Len(tracks) |->
                      decorate(tracks[k], strategy, originalTrack, audioFeatures) ]

\* strategyTracks pushing each track as soon as it is scored: the hits
\* before a malformed one stay in allCandidates.
strategyTracksPushedOneByOne(tag, strategy, originalTrack, audioFeatures) ==
    IF tag \in FailureTags THEN <<>>
    ELSE LET items  == itemsOf(ordinalOf(strategy.description), tag, originalTrack)
             tracks == SelectSeq(items, LAMBDA track : track.id # originalTrack.id)
             good   == IF \E k \in 1..Len(tracks) : tracks[k].artists = <<>>
                       THEN (CHOOSE k \in 1..Len(tracks) :
                                /\ tracks[k].artists = <<>>
                                /\ \A l \in 1..(k - 1) : tracks[l].artists # <<>>) - 1
                       ELSE Len(tracks)
         IN  [ k \in 1..good |->
                 decorate(tracks[k], strategy, originalTrack, audioFeatures) ]

\* The tracks pushed for one reply.  A rejected fetch and a body without
\* tracks.items throw into the catch of line 909; a non-success status skips
\* the block; a hit without artists throws inside forEach, before the push.
strategyTracks(tag, strategy, originalTrack, audioFeatures) ==
    IF tag \in FailureTags THEN <<>>
    ELSE LET items  == itemsOf(ordinalOf(strategy.description), tag, originalTrack)
             tracks == SelectSeq(items, LAMBDA track : track.id # originalTrack.id)
         IN  IF \E k \in 1..Len(tracks) : tracks[k].artists = <<>>
             THEN <<>>
             ELSE [ k \in 1..Len(tracks) |->
                      decorate(tracks[k], strategy, originalTrack, audioFeatures) ]

\* The loop left after its first iteration, as by a return inside it.
lastIterationIsFirst(si, searchStrategies) == TRUE

\* line 883: for (const strategy of searchStrategies) ends after the last
\* element.
lastIteration(si, searchStrategies) == si >= Len(searchStrategies)

\* A reply's tracks put in front of the tracks gathered before it.
pushAllInFront(allCandidates, tracks) == tracks \o allCandidates

\* line 906: allCandidates.push(...tracks)
pushAll(allCandidates, tracks) == allCandidates \o tracks

\* Lines 914-921 : the list findSimilarTracksViaSpotify returns.
rankCandidates(allCandidates) == sortBySimilarity(removeDuplicateTracks(allCandidates))

\* The slice the comment of line 920 announces ("Return top 3 matches").
topThree(sortedCandidates) == slice0(sortedCandidates, 3)

topTen(sortedCandidates) == slice0(sortedCandidates, 10)

(***************************************************************************)
(* The responses of the two routes                                         *)
(***************************************************************************)
ErrorResponse(status) == [ status |-> status, similarTracks |-> <<>> ]

\* similarSongResponse answering 404 when nothing similar was found.
similarSongNotFound(similarTracks) ==
    IF Len(similarTracks) > 0
    THEN [ status |-> 200, similarTracks |-> slice0(similarTracks, 5) ]
    ELSE ErrorResponse(404)

\* lines 1093-1113
similarSongResponse(similarTracks) ==
    [ status        |-> 200,
      similarTracks |-> IF Len(similarTracks) > 0 THEN slice0(similarTracks, 5) ELSE <<>> ]

\* line 1133: limit = 9 unless the query names one.
limitOf(request) == IF request.limit = Undefined THEN 9 ELSE request.limit[1]

\* lines 1157-1158; the body is the array itself.
recommendationsResponse(request, similarTracks) ==
    [ status        |-> 200,
      similarTracks |-> slice0(similarTracks,
                               Min(limitOf(request), Len(similarTracks))) ]

\* What a route answers when the seed track's fetch ends with a non-success
\* status: line 1078 throws into the catch, line 1160 answers an empty list.
seedStatusResponse(route) ==
    IF route = "similar-song" THEN ErrorResponse(500)
    ELSE [ status |-> 200, similarTracks |-> <<>> ]

\* lines 1140-1142: the only check of the query of /api/recommendations.
rejectedAtOnce(request) ==
    request.route = "recommendations" /\ request.trackId = Undefined

\* tokenValid without the five minutes of margin.
tokenValidNoMargin(token, expiry, time) == token # "" /\ time < expiry

\* line 615: the cached token serves.
tokenValid(token, expiry, time) == token # "" /\ time < expiry - 300000

Limits == { Undefined, Some(0 - 1), Some(0), Some(12) }

Requests ==
         [ route : {"similar-song"}, trackId : { Some(i) : i \in TrackIds },
           limit : {Undefined} ]
    \cup [ route : {"recommendations"},
           trackId : {Undefined} \cup { Some(i) : i \in TrackIds },
           limit : Limits ]

\* The draws of the estimator inside a request: every Math.random() call
\* returns the same end of the interval.
RequestDraws == { [ s \in DrawSites |-> r ] : r \in RandomDraws }

\* expires_in of a token reply, in seconds.
ExpiresIn == { 3600 }

\* The ticks of the clock when time passes, each of 500 ms, and the values
\* of expires_in then: lifetimes at the margin of 300 s, just above it, and
\* the usual hour.
MaxTicks == 5

TokenLifetimes == { 300, 301, 302, 3600 }

\* The arguments of the direct calls of calculateSimilarityScore: the
\* popularities at both ends of 0..100 and between, durations on both sides
\* of half the seed's, the seed's artist in another letter case.
ScorePopularities == { 0, 50, 100 }

ScoreCandidates ==
    { Track(7, <<"c">>, << a >>, Undefined, p, d, e, u) :
        a \in { <<"A","n","n">>, <<"A","N","N">>, <<"B","o","b">> },
        p \in ScorePopularities,
        d \in { 1, 100000, 150000, 200000 },
        e \in BOOLEAN,
        u \in { Undefined, Some("url") } }

ScoreSeeds ==
    { Track(1, <<"s">>, << <<"A","n","n">> >>, Undefined, p, d, e, Undefined) :
        p \in ScorePopularities, d \in { 1, 100000, 200000 }, e \in BOOLEAN }

\* The arguments of the direct calls of getGenreFromFeatures: the fields the
\* rules read, at each threshold and on both sides of it.
GenreVectors ==
    { [ baseFeatures EXCEPT !.energy = en, !.danceability = da, !.tempo = te,
                            !.acousticness = ac, !.valence = va ] :
        en \in { 30000, 40000, 70000, 75000, 80000, 90000 },
        da \in { 70000, 80000 },
        te \in { 140 * Unit, 150 * Unit },
        ac \in { 60000, 70000 },
        va \in { 20000, 30000 } }

\* The HTTP requests whose handlers can be between two awaits at the same
\* time.
Callers == { "first", "second" }

(***************************************************************************)
(* State                                                                   *)
(***************************************************************************)
VARIABLES
    trackData,          \* the argument of a direct call of generateIntelligentFeatures
    rng,                \* the values Math.random() returned during that call
    features,           \* its result, <<>> before the call
    stages,             \* the vector as it was at the end of each stage of that call
    candidateTrack,     \* the arguments of a direct call of calculateSimilarityScore:
    seedTrack,          \*   the candidate and the seed (its originalTrack)
    score,              \* its result, <<>> before the call
    genreFeatures,      \* the argument of a direct call of getGenreFromFeatures
    genre,              \* its result, "" before the call
    tokenCalls,         \* direct calls of getSpotifyToken, one per concurrent caller
    reccobeatsRecommendation, \* locals of the ReccoBeats version's similar-song
    spotifySimilarTrack,      \*   route, <<>> while null
    spotifyAccessToken, \* the module-level token cache, "" at start
    tokenExpiryTime,    \* and its expiry, in ms
    now,                \* Date.now()
    pc,                 \* where the handler of the request in hand stands
    req,                \* the request in hand
    originalTrack,      \* the seed track, once fetched
    audioFeatures,      \* its estimated features
    searchStrategies,   \* the strategies of findSimilarTracksViaSpotify
    si,                 \* the strategy whose search is in flight
    replies,            \* the replies of the searches so far, one tag each
    allCandidates,      \* the tracks pushed so far
    sortedCandidates,   \* uniqueCandidates after the sort of line 916
    response,           \* what the handler answered
    upstream,           \* the upstream requests this handler issued, in order
    tokenReply,         \* how the token was obtained, "" before
    trackReply          \* how the seed track's fetch ended, "" before

estVars == << trackData, rng, features, stages >>

scoreVars == << candidateTrack, seedTrack, score >>

genreVars == << genreFeatures, genre >>

reccoVars == << reccobeatsRecommendation, spotifySimilarTrack >>

\* The state of the direct calls of the pure functions and of the
\* ReccoBeats version's routes.
callVars == << scoreVars, genreVars, tokenCalls, reccoVars >>

tokenVars == << spotifyAccessToken, tokenExpiryTime, now >>

reqVars ==
    << pc, req, originalTrack, audioFeatures, searchStrategies, si, replies,
       allCandidates, sortedCandidates, response, upstream, tokenReply, trackReply >>

vars == << estVars, callVars, tokenVars, reqVars >>

NoRequest == [ route |-> "", trackId |-> Undefined, limit |-> Undefined ]

\* The handler's locals before a request arrives.
Idle ==
    /\ pc = "idle"
    /\ req = NoRequest
    /\ originalTrack = <<>>
    /\ audioFeatures = <<>>
    /\ searchStrategies = <<>>
    /\ si = 0
    /\ replies = <<>>
    /\ allCandidates = <<>>
    /\ sortedCandidates = <<>>
    /\ response = <<>>
    /\ upstream = <<>>
    /\ tokenReply = ""
    /\ trackReply = ""

\* lines 609-610
TokenInit ==
    /\ spotifyAccessToken = ""
    /\ tokenExpiryTime = 0
    /\ now = 0

NoEstimate ==
    /\ trackData = <<>>
    /\ rng = <<>>
    /\ features = <<>>
    /\ stages = <<>>

NoScore ==
    /\ candidateTrack = <<>>
    /\ seedTrack = <<>>
    /\ score = <<>>

NoGenre ==
    /\ genreFeatures = <<>>
    /\ genre = ""

NoTokenCall == tokenCalls = [ h \in Callers |-> "none" ]

NoRecco ==
    /\ reccobeatsRecommendation = <<>>
    /\ spotifySimilarTrack = <<>>

NoCall ==
    /\ NoScore
    /\ NoGenre
    /\ NoTokenCall
    /\ NoRecco

(***************************************************************************)
(* The estimator on its own                                                *)
(***************************************************************************)
EstInit ==
    /\ trackData \in EstimatorTracks
    /\ rng = <<>>
    /\ features = <<>>
    /\ stages = <<>>
    /\ NoCall
    /\ TokenInit
    /\ Idle

\* One call of generateIntelligentFeatures(trackData).
Estimate ==
    /\ features = <<>>
    /\ trackData # <<>>
    /\ \E m \in {matches(trackData)} :
       \E d \in [DrawSites -> RandomDraws] :
          /\ rng' = d
          /\ stages' = stagesOf(trackData, m, d)
          /\ features' = jitterAndRound(preJitterFeatures(trackData, m, d), d)
    /\ UNCHANGED << trackData, callVars, tokenVars, reqVars >>

EstNext == Estimate

SpecEstimator == EstInit /\ [][EstNext]_vars

(***************************************************************************)
(* calculateSimilarityScore on its own                                     *)
(***************************************************************************)
ScoreInit ==
    /\ candidateTrack \in ScoreCandidates
    /\ seedTrack \in ScoreSeeds
    /\ score = <<>>
    /\ NoGenre
    /\ NoTokenCall
    /\ NoRecco
    /\ NoEstimate
    /\ TokenInit
    /\ Idle

\* One call of calculateSimilarityScore(audioFeatures, candidateTrack, seedTrack);
\* the function does not read its first argument.
Score ==
    /\ score = <<>>
    /\ score' = << calculateSimilarityScore(<<>>, candidateTrack, seedTrack) >>
    /\ UNCHANGED << candidateTrack, seedTrack, genreVars, tokenCalls, reccoVars, estVars,
                    tokenVars, reqVars >>

ScoreNext == Score

SpecScore == ScoreInit /\ [][ScoreNext]_vars

(***************************************************************************)
(* getGenreFromFeatures on its own                                         *)
(***************************************************************************)
GenreInit ==
    /\ genreFeatures \in GenreVectors
    /\ genre = ""
    /\ NoScore
    /\ NoTokenCall
    /\ NoRecco
    /\ NoEstimate
    /\ TokenInit
    /\ Idle

\* One call of getGenreFromFeatures(genreFeatures).
Genre ==
    /\ genre = ""
    /\ genre' = getGenreFromFeatures(genreFeatures)
    /\ UNCHANGED << genreFeatures, scoreVars, tokenCalls, reccoVars, estVars, tokenVars,
                    reqVars >>

GenreNext == Genre

SpecGenre == GenreInit /\ [][GenreNext]_vars

(***************************************************************************)
(* The routes /api/similar-song/:trackId and /api/recommendations          *)
(***************************************************************************)
Init ==
    /\ NoEstimate
    /\ NoCall
    /\ TokenInit
    /\ Idle

\* The handler answers and ends.
Answer(r) ==
    /\ response' = r
    /\ pc' = "done"

\* The handler issues an upstream request and awaits its reply.
Await(what) ==
    /\ pc' = what
    /\ upstream' = Append(upstream, what)

\* A request arrives.  /api/recommendations without seed_tracks is answered
\* 400 at once; otherwise getSpotifyToken returns the cached token, and the
\* seed track's fetch is issued, or it issues a token request.
Receive(request) ==
    /\ pc = "idle"
    /\ req' = request
    /\ IF rejectedAtOnce(request)
       THEN /\ Answer(ErrorResponse(400))
            /\ UNCHANGED << upstream, tokenReply >>
       ELSE IF tokenValid(spotifyAccessToken, tokenExpiryTime, now)
       THEN /\ Await("track")
            /\ tokenReply' = "cached"
            /\ UNCHANGED response
       ELSE /\ Await("token")
            /\ UNCHANGED << response, tokenReply >>
    /\ UNCHANGED << estVars, callVars, tokenVars, originalTrack, audioFeatures,
                    searchStrategies, si, replies, allCandidates,
                    sortedCandidates, trackReply >>

\* TokenFails with a catch block that forgets the cached token.
TokenFailsClearingCache(tag) ==
    /\ pc = "token"
    /\ tokenReply' = tag
    /\ spotifyAccessToken' = ""
    /\ tokenExpiryTime' = 0
    /\ Answer(ErrorResponse(500))
    /\ UNCHANGED << estVars, callVars, now, req, originalTrack, audioFeatures,
                    searchStrategies, si, replies, allCandidates,
                    sortedCandidates, upstream, trackReply >>

\* The token request fails: getSpotifyToken rethrows, the route answers 500.
TokenFails(tag) ==
    /\ pc = "token"
    /\ tokenReply' = tag
    /\ Answer(ErrorResponse(500))
    /\ UNCHANGED << estVars, callVars, tokenVars, req, originalTrack, audioFeatures,
                    searchStrategies, si, replies, allCandidates,
                    sortedCandidates, upstream, trackReply >>

\* The token request succeeds: lines 633-638, then the seed track's fetch.
TokenArrives(expires_in) ==
    /\ pc = "token"
    /\ tokenReply' = "ok"
    /\ spotifyAccessToken' = "token"
    /\ tokenExpiryTime' = now + expires_in * 1000
    /\ Await("track")
    /\ UNCHANGED << estVars, callVars, now, req, originalTrack, audioFeatures,
                    searchStrategies, si, replies, allCandidates,
                    sortedCandidates, response, trackReply >>

\* The seed track's fetch fails.  A rejected fetch or an unreadable body
\* throws into the route's catch; a non-success status is the route's own
\* branch.
TrackFails(tag) ==
    /\ pc = "track"
    /\ trackReply' = tag
    /\ Answer(IF tag = "status" THEN seedStatusResponse(req.route)
              ELSE ErrorResponse(500))
    /\ UNCHANGED << estVars, callVars, tokenVars, req, originalTrack, audioFeatures,
                    searchStrategies, si, replies, allCandidates,
                    sortedCandidates, upstream, tokenReply >>

\* The seed track arrives: getIntelligentFeatures, then
\* findSimilarTracksViaSpotify up to its first search.
TrackArrives ==
    /\ pc = "track"
    /\ trackReply' = "ok"
    /\ \E t \in {trackById(req.trackId[1])} :
       \E d \in RequestDraws :
       \E f \in {generateIntelligentFeatures(t, d)} :
          /\ originalTrack' = t
          /\ audioFeatures' = f
          /\ searchStrategies' = searchStrategiesOf(t, f)
    /\ si' = 1
    /\ Await("search")
    /\ UNCHANGED << estVars, callVars, tokenVars, req, replies, allCandidates,
                    sortedCandidates, response, tokenReply >>

\* The route's answer once findSimilarTracksViaSpotify has returned.
routeResponse(request, similarTracks) ==
    IF request.route = "similar-song"
    THEN similarSongResponse(similarTracks)
    ELSE recommendationsResponse(request, similarTracks)

\* The reply of the search in flight arrives: lines 894-911 for it, then
\* the next strategy's search, or after the last one lines 914-921 and the
\* route's answer.
SearchReply(tag) ==
    /\ pc = "search"
    /\ replies' = Append(replies, tag)
    /\ \E pushed \in { pushAll(allCandidates,
                                strategyTracks(tag, searchStrategies[si],
                                               originalTrack, audioFeatures)) } :
          /\ allCandidates' = pushed
          /\ IF ~lastIteration(si, searchStrategies)
             THEN /\ si' = si + 1
                  /\ Await("search")
                  /\ UNCHANGED << sortedCandidates, response >>
             ELSE \E ranked \in { rankCandidates(pushed) } :
                    /\ sortedCandidates' = ranked
                    /\ Answer(routeResponse(req, topTen(ranked)))
                    /\ UNCHANGED << si, upstream >>
    /\ UNCHANGED << estVars, callVars, tokenVars, req, originalTrack, audioFeatures,
                    searchStrategies, tokenReply, trackReply >>

\* The response is sent; the handler's locals are gone, the token cache stays.
Complete ==
    /\ pc = "done"
    /\ pc' = "idle"
    /\ req' = NoRequest
    /\ originalTrack' = <<>>
    /\ audioFeatures' = <<>>
    /\ searchStrategies' = <<>>
    /\ si' = 0
    /\ replies' = <<>>
    /\ allCandidates' = <<>>
    /\ sortedCandidates' = <<>>
    /\ response' = <<>>
    /\ upstream' = <<>>
    /\ tokenReply' = ""
    /\ trackReply' = ""
    /\ UNCHANGED << estVars, callVars, tokenVars >>

Next ==
    \/ \E request \in Requests : Receive(request)
    \/ \E tag \in FailureTags : TokenFails(tag)
    \/ \E e \in ExpiresIn : TokenArrives(e)
    \/ \E tag \in FailureTags : TrackFails(tag)
    \/ TrackArrives
    \/ \E tag \in SearchTags : SearchReply(tag)
    \/ Complete

Spec == Init /\ [][Next]_vars

\* The same with the progress the runtime gives: a response that is ready is
\* sent, and the token request and the seed track's fetch are answered
\* sooner or later.  Nothing makes a search's reply arrive: the fetch of
\* line 890 carries no timeout, no signal, and nothing races it.
SpecLive ==
    /\ Spec
    /\ WF_vars(Complete)
    /\ WF_vars((\E tag \in FailureTags : TokenFails(tag)) \/ (\E e \in ExpiresIn : TokenArrives(e)))
    /\ WF_vars((\E tag \in FailureTags : TrackFails(tag)) \/ TrackArrives)

(***************************************************************************)
(* getSpotifyToken while time passes                                       *)
(***************************************************************************)
\* Date.now() moves on by 500 ms.
Tick ==
    /\ now < MaxTicks * 500
    /\ now' = now + 500
    /\ UNCHANGED << estVars, callVars, spotifyAccessToken, tokenExpiryTime, reqVars >>

\* The requests up to the seed track's fetch, which ends here without a
\* track: getSpotifyToken is called once per request.
TokenNext ==
    \/ Tick
    \/ \E request \in Requests : Receive(request)
    \/ \E tag \in FailureTags : TokenFails(tag)
    \/ \E e \in TokenLifetimes : TokenArrives(e)
    \/ \E tag \in FailureTags : TrackFails(tag)
    \/ Complete

SpecToken == Init /\ [][TokenNext]_vars

(***************************************************************************)
(* getSpotifyToken called by several requests at once                      *)
(***************************************************************************)
RaceInit == Init

\* Caller h calls getSpotifyToken: line 615 returns the cached token, or the
\* token request of line 620 is issued and awaited.
CallToken(h) ==
    /\ tokenCalls[h] = "none"
    /\ tokenCalls' = [ tokenCalls EXCEPT ![h] =
                         IF tokenValid(spotifyAccessToken, tokenExpiryTime, now)
                         THEN "cached" ELSE "awaiting" ]
    /\ UNCHANGED << estVars, scoreVars, genreVars, reccoVars, tokenVars, reqVars >>

\* The reply to h's token request arrives: lines 633-638.
CallTokenArrives(h, expires_in) ==
    /\ tokenCalls[h] = "awaiting"
    /\ tokenCalls' = [ tokenCalls EXCEPT ![h] = "fetched" ]
    /\ spotifyAccessToken' = "token"
    /\ tokenExpiryTime' = now + expires_in * 1000
    /\ UNCHANGED << estVars, scoreVars, genreVars, reccoVars, now, reqVars >>

\* h's token request fails: lines 639-642.
CallTokenFails(h, tag) ==
    /\ tokenCalls[h] = "awaiting"
    /\ tokenCalls' = [ tokenCalls EXCEPT ![h] = tag ]
    /\ UNCHANGED << estVars, scoreVars, genreVars, reccoVars, tokenVars, reqVars >>

\* h's request is over; a later request calls again.
CallEnds(h) ==
    /\ tokenCalls[h] \notin { "none", "awaiting" }
    /\ tokenCalls' = [ tokenCalls EXCEPT ![h] = "none" ]
    /\ UNCHANGED << estVars, scoreVars, genreVars, reccoVars, tokenVars, reqVars >>

\* Date.now() moves on while calls are made.
RaceTick ==
    /\ now < MaxTicks * 500
    /\ now' = now + 500
    /\ UNCHANGED << estVars, callVars, spotifyAccessToken, tokenExpiryTime, reqVars >>

RaceNext ==
    \/ \E h \in Callers : CallToken(h)
    \/ \E h \in Callers, e \in TokenLifetimes : CallTokenArrives(h, e)
    \/ \E h \in Callers, tag \in FailureTags : CallTokenFails(h, tag)
    \/ \E h \in Callers : CallEnds(h)
    \/ RaceTick

SpecRace == RaceInit /\ [][RaceNext]_vars

(***************************************************************************)
(* The ReccoBeats version of the server: the estimator's keyword lists,    *)
(* and the hybrid route /api/audio-features/:trackId                       *)
(***************************************************************************)
\* The keyword lists of this version: each is one word shorter, or two.
energeticWordsReccoBeats ==
    energeticWords \ { <<"r","o","c","k">>, <<"m","e","t","a","l">> }

chillWordsReccoBeats == chillWords \ { <<"a","m","b","i","e","n","t">> }

sadWordsReccoBeats == sadWords \ { <<"s","o","r","r","y">> }

happyWordsReccoBeats == happyWords \ { <<"p","a","r","t","y">> }

romanticWordsReccoBeats == romanticWords \ { <<"b","a","b","y">> }

matchesReccoBeats(t) ==
    LET trackName  == toLowerCase(t.name)
        artistName == toLowerCase(t.artists[1])
    IN  [ energetic |-> someIncluded(energeticWordsReccoBeats, trackName),
          chill     |-> someIncluded(chillWordsReccoBeats, trackName),
          sad       |-> someIncluded(sadWordsReccoBeats, trackName),
          happy     |-> someIncluded(happyWordsReccoBeats, trackName),
          romantic  |-> someIncluded(romanticWordsReccoBeats, trackName),
          djArtist  |-> \/ includes(artistName, <<"d","j">>)
                        \/ includes(artistName, <<"e","d","m">>) ]

\* The object generateIntelligentFeatures returns: the extracted and the
\* three fields about their provenance.
estimatedFeatures(t, d) ==
    LET estimated == jitterAndRound(preJitterFeatures(t, matchesReccoBeats(t), d), d)
    IN  [ k \in KeySet \cup { "_source", "_confidence", "_note" } |->
            CASE k = "_source"     -> "intelligent_estimation"
              [] k = "_confidence" -> "medium"
              [] k = "_note"       -> "Features estimated from track metadata and name analysis"
              [] OTHER             -> estimated[k] ]

\* The bodies the extraction endpoint can answer with: extracted, with or
\* without a _source of their own.
ExtractedFeatures ==
    { [ energy |-> 61000, tempo |-> 118 * Unit ],
      [ energy |-> 20000, _source |-> "reccobeats" ],
      [ danceability |-> 70000 ] }

\* A spread that lets the extracted body's own _source stand.
tagUnlessTagged(extracted, preview_url) ==
    [ k \in DOMAIN extracted \cup { "_source", "_preview_url" } |->
        IF k \in DOMAIN extracted THEN extracted[k]
        ELSE IF k = "_source" THEN "reccobeats_extraction"
        ELSE preview_url ]

\* { ...extracted, _source: 'reccobeats_extraction', _preview_url: ... }
tagExtracted(extracted, preview_url) ==
    [ k \in DOMAIN extracted \cup { "_source", "_preview_url" } |->
        IF k = "_source" THEN "reccobeats_extraction"
        ELSE IF k = "_preview_url" THEN preview_url
        ELSE extracted[k] ]

HybridRequests ==
    [ route : {"audio-features"}, trackId : { Some(i) : i \in TrackIds },
      limit : {Undefined} ]

JsonResponse(status, body) == [ status |-> status, body |-> body ]

\* The seed track's fetch fails: a rejected fetch, a non-success status and
\* an unreadable body all end in the route's catch.
HybridTrackFails(tag) ==
    /\ pc = "track"
    /\ req.route = "audio-features"
    /\ trackReply' = tag
    /\ Answer(JsonResponse(500, "Failed to get audio features"))
    /\ UNCHANGED << estVars, callVars, tokenVars, req, originalTrack, audioFeatures,
                    searchStrategies, si, replies, allCandidates,
                    sortedCandidates, upstream, tokenReply >>

\* The fallback: the estimated extracted are the response.
AnswerEstimate(trackData_) ==
    \E d \in RequestDraws :
        Answer(JsonResponse(200, estimatedFeatures(trackData_, d)))

\* The track arrives: with a preview URL the audio file's download is
\* issued (extractAudioFeaturesFromFile), without one the route estimates.
HybridTrackArrives ==
    /\ pc = "track"
    /\ req.route = "audio-features"
    /\ trackReply' = "ok"
    /\ originalTrack' = trackById(req.trackId[1])
    /\ IF originalTrack'.preview_url # Undefined
       THEN Await("audio") /\ UNCHANGED response
       ELSE AnswerEstimate(originalTrack') /\ UNCHANGED upstream
    /\ UNCHANGED << estVars, callVars, tokenVars, req, audioFeatures,
                    searchStrategies, si, replies, allCandidates,
                    sortedCandidates, tokenReply >>

\* The audio file's download ends: on success the extraction request is
\* issued; a rejected fetch, a non-success status or an unreadable body
\* throws out of extractAudioFeaturesFromFile into the route's inner catch.
AudioReply(tag) ==
    /\ pc = "audio"
    /\ replies' = Append(replies, tag)
    /\ IF tag = "ok"
       THEN Await("extract") /\ UNCHANGED response
       ELSE AnswerEstimate(originalTrack) /\ UNCHANGED upstream
    /\ UNCHANGED << estVars, callVars, tokenVars, req, originalTrack, audioFeatures,
                    searchStrategies, si, allCandidates, sortedCandidates,
                    tokenReply, trackReply >>

\* The extraction request fails: the same inner catch, then the estimate.
ExtractFails(tag) ==
    /\ pc = "extract"
    /\ replies' = Append(replies, tag)
    /\ AnswerEstimate(originalTrack)
    /\ UNCHANGED << estVars, callVars, tokenVars, req, originalTrack, audioFeatures,
                    searchStrategies, si, allCandidates, sortedCandidates, upstream,
                    tokenReply, trackReply >>

\* The extraction request answers with features: they are the response,
\* tagged.
ExtractArrives(extracted) ==
    /\ pc = "extract"
    /\ replies' = Append(replies, "ok")
    /\ audioFeatures' = features
    /\ Answer(JsonResponse(200, tagExtracted(extracted, originalTrack.preview_url[1])))
    /\ UNCHANGED << estVars, callVars, tokenVars, req, originalTrack,
                    searchStrategies, si, allCandidates, sortedCandidates, upstream,
                    tokenReply, trackReply >>

HybridNext ==
    \/ \E request \in HybridRequests : Receive(request)
    \/ \E tag \in FailureTags : TokenFails(tag)
    \/ \E e \in ExpiresIn : TokenArrives(e)
    \/ \E tag \in FailureTags : HybridTrackFails(tag)
    \/ HybridTrackArrives
    \/ \E tag \in FailureTags \cup {"ok"} : AudioReply(tag)
    \/ \E tag \in FailureTags : ExtractFails(tag)
    \/ \E extracted \in ExtractedFeatures : ExtractArrives(extracted)
    \/ Complete

SpecHybrid == Init /\ [][HybridNext]_vars

(***************************************************************************)
(* The ReccoBeats version's route /api/similar-song/:trackId               *)
(***************************************************************************)
\* The endpoints the route tries in turn.
ReccobeatsEndpoints == 3

\* What ReccoBeats can recommend: a track of the catalogue by its title and
\* artist, the seed included, under one of the field names the route reads,
\* or an entry with none of them.
ReccoCatalog == SeedTracks \cup { Hit(1, 1), Hit(1, 2) }

Recommendation(track_name, name, title, artist_name, artist) ==
    [ track_name |-> track_name, name |-> name, title |-> title,
      artist_name |-> artist_name, artist |-> artist ]

Recommendations ==
    { Recommendation(Some(t.name), Undefined, Undefined, Some(t.artists[1]), Undefined) :
        t \in { Seed1, Hit(1, 1) } }
    \cup
    { Recommendation(Undefined, Undefined, Some(t.name), Undefined, Undefined) :
        t \in { Seed2, Seed3, Hit(1, 2) } }
    \cup
    { Recommendation(Undefined, Undefined, Undefined, Undefined, Some(<<"X">>)) }

\* a || b || c over fields that are absent or hold a non-empty string.
firstTruthy(fields) ==
    IF \E i \in 1..Len(fields) : fields[i] # Undefined
    THEN fields[CHOOSE i \in 1..Len(fields) :
                  /\ fields[i] # Undefined
                  /\ \A j \in 1..(i - 1) : fields[j] = Undefined]
    ELSE Undefined

searchQueryOf(rec) == firstTruthy(<< rec.track_name, rec.name, rec.title >>)

\* The replies of a ReccoBeats endpoint: a failure, or an array of
\* recommendations, of which the route reads the first.
ReccoReplies ==
    [ tag : FailureTags, data : { <<>> } ]
    \cup [ tag : { "ok" }, data : { <<>> } \cup { << rec >> : rec \in Recommendations } ]

\* The replies of the catalogue's search for a recommendation, limit=1: a
\* failure, no hit, or the track of that title.
MatchReplies(rec) ==
    [ tag : FailureTags, items : { <<>> } ]
    \cup [ tag : { "ok" },
           items : { <<>> } \cup { << t >> : t \in { u \in ReccoCatalog :
                                                   Some(u.name) = searchQueryOf(rec) } } ]

\* The replies of the keyword search, limit=5: a failure or a list of hits,
\* with the seed among them or not.
FallbackReplies(seed) ==
    [ tag : FailureTags, items : { <<>> } ]
    \cup [ tag : { "ok" },
           items : { <<>>, << seed >>, << seed, Hit(1, 1) >>,
                     << Hit(1, 2), seed, Hit(1, 1) >> } ]

\* Array.prototype.find(track => track.id !== trackId), <<>> for undefined.
findDifferent(items, trackId) ==
    IF \E i \in 1..Len(items) : items[i].id # trackId
    THEN Some(items[CHOOSE i \in 1..Len(items) :
                      /\ items[i].id # trackId
                      /\ \A j \in 1..(i - 1) : items[j].id = trackId])
    ELSE <<>>

\* searchData.tracks.items[0], when there is one.
firstItem(items) == IF Len(items) > 0 THEN Some(items[1]) ELSE <<>>

\* getIntelligentFeatures: the nine features without the provenance fields.
cleanFeatures(t, d) == [ k \in KeySet |-> estimatedFeatures(t, d)[k] ]

\* Step 6: the body of the route's answer.
reccoResponse(track, f, recommendation, similar) ==
    [ status        |-> 200,
      originalTrack |-> [ id |-> track.id, name |-> track.name,
                          artist |-> track.artists[1], album |-> track.album.name ],
      audioFeatures |-> f,
      reccobeatsRecommendation |-> recommendation,
      similarTrack  |-> similar,
      pipeline      |-> [ reccobeatsUsed |-> recommendation # <<>>,
                          spotifySearchUsed |-> similar # <<>>,
                          method |-> IF recommendation # <<>>
                                     THEN "reccobeats_to_spotify"
                                     ELSE "feature_based_search" ] ]

ReccoRequests ==
    [ route : {"similar-song"}, trackId : { Some(i) : i \in TrackIds },
      limit : {Undefined} ]

\* The seed track's fetch fails: every failure ends in the route's catch.
ReccoTrackFails(tag) ==
    /\ pc = "track"
    /\ trackReply' = tag
    /\ Answer(JsonResponse(500, "Failed to find similar song"))
    /\ UNCHANGED << estVars, callVars, tokenVars, req, originalTrack, audioFeatures,
                    searchStrategies, si, replies, allCandidates,
                    sortedCandidates, upstream, tokenReply >>

\* Steps 1-3: the track arrives, its features are estimated, and the first
\* ReccoBeats endpoint is asked.
ReccoTrackArrives ==
    /\ pc = "track"
    /\ trackReply' = "ok"
    /\ originalTrack' = trackById(req.trackId[1])
    /\ \E d \in RequestDraws : audioFeatures' = cleanFeatures(originalTrack', d)
    /\ reccobeatsRecommendation' = <<>>
    /\ spotifySimilarTrack' = <<>>
    /\ si' = 1
    /\ Await("recco")
    /\ UNCHANGED << estVars, scoreVars, genreVars, tokenCalls, tokenVars, req,
                    searchStrategies, replies, allCandidates, sortedCandidates,
                    response, tokenReply >>

\* Step 3: an endpoint's reply.  The first non-empty array ends the loop and
\* its first entry is the recommendation; with a title, step 4 searches the
\* catalogue for it.  Otherwise the next endpoint is asked, and after the
\* last one step 5's keyword search is issued.
ReccoReply(reply) ==
    /\ pc = "recco"
    /\ replies' = Append(replies, reply.tag)
    /\ IF reply.tag = "ok" /\ Len(reply.data) > 0
       THEN /\ reccobeatsRecommendation' = Some(reply.data[1])
            /\ Await(IF searchQueryOf(reply.data[1]) # Undefined
                     THEN "match" ELSE "fallback")
            /\ UNCHANGED si
       ELSE /\ UNCHANGED reccobeatsRecommendation
            /\ IF si < ReccobeatsEndpoints
               THEN si' = si + 1 /\ Await("recco")
               ELSE UNCHANGED si /\ Await("fallback")
    /\ UNCHANGED << estVars, scoreVars, genreVars, tokenCalls, spotifySimilarTrack,
                    tokenVars, req, originalTrack, audioFeatures, searchStrategies,
                    allCandidates, sortedCandidates, response, tokenReply,
                    trackReply >>

\* Step 4: the catalogue's reply to the search for the recommendation; its
\* first hit is the similar track.  Without one, step 5's search is issued.
MatchReply(reply) ==
    /\ pc = "match"
    /\ replies' = Append(replies, reply.tag)
    /\ spotifySimilarTrack' =
          IF reply.tag = "ok" THEN firstItem(reply.items) ELSE <<>>
    /\ IF spotifySimilarTrack' # <<>>
       THEN /\ Answer(reccoResponse(originalTrack, audioFeatures,
                                    reccobeatsRecommendation, spotifySimilarTrack'))
            /\ UNCHANGED upstream
       ELSE Await("fallback") /\ UNCHANGED response
    /\ UNCHANGED << estVars, scoreVars, genreVars, tokenCalls,
                    reccobeatsRecommendation, tokenVars, req, originalTrack,
                    audioFeatures, searchStrategies, si, allCandidates,
                    sortedCandidates, tokenReply, trackReply >>

\* Steps 5 and 6: the keyword search's reply; the first hit that is not the
\* seed is the similar track, and the route answers.
FallbackReply(reply) ==
    /\ pc = "fallback"
    /\ replies' = Append(replies, reply.tag)
    /\ spotifySimilarTrack' =
          IF reply.tag = "ok" THEN findDifferent(reply.items, req.trackId[1]) ELSE <<>>
    /\ Answer(reccoResponse(originalTrack, audioFeatures,
                            reccobeatsRecommendation, spotifySimilarTrack'))
    /\ UNCHANGED << estVars, scoreVars, genreVars, tokenCalls,
                    reccobeatsRecommendation, tokenVars, req, originalTrack,
                    audioFeatures, searchStrategies, si, allCandidates,
                    sortedCandidates, upstream, tokenReply, trackReply >>

ReccoNext ==
    \/ \E request \in ReccoRequests : Receive(request)
    \/ \E tag \in FailureTags : TokenFails(tag)
    \/ \E e \in ExpiresIn : TokenArrives(e)
    \/ \E tag \in FailureTags : ReccoTrackFails(tag)
    \/ ReccoTrackArrives
    \/ \E reply \in ReccoReplies : ReccoReply(reply)
    \/ /\ pc = "match"
       /\ \E reply \in MatchReplies(reccobeatsRecommendation[1]) : MatchReply(reply)
    \/ /\ pc = "fallback"
       /\ \E reply \in FallbackReplies(originalTrack) : FallbackReply(reply)
    \/ Complete

SpecRecco == Init /\ [][ReccoNext]_vars

(***************************************************************************)
(* Properties                                                              *)
(***************************************************************************)
\* The seed was fetched, so findSimilarTracksViaSpotify is running or has returned.
Resolving == trackReply = "ok"

Returned == pc = "done" /\ trackReply = "ok"

\* The i-th search failed: the fetch was rejected, the status was not a
\* success, or the payload was malformed (no tracks.items, or a hit without
\* artists).
Failing(i) ==
    \/ replies[i] \in FailureTags
    \/ \E item \in { itemsOf(ordinalOf(searchStrategies[i].description), replies[i],
                             originalTrack)[k] :
                       k \in 1..Len(itemsOf(ordinalOf(searchStrategies[i].description),
                                            replies[i], originalTrack)) } :
          item.artists = <<>>

\* The identifiers the i-th reply holds, the seed's left out, each with the
\* description of the strategy that asked.
RECURSIVE HitsOf(_, _)
HitsOf(items, description) ==
    IF items = <<>> THEN <<>>
    ELSE (IF Head(items).id = originalTrack.id THEN <<>>
          ELSE << <<Head(items).id, description>> >>)
         \o HitsOf(Tail(items), description)

RECURSIVE ExpectedFrom(_)
ExpectedFrom(i) ==
    IF i > Len(replies) THEN <<>>
    ELSE (IF Failing(i) THEN <<>>
          ELSE HitsOf(itemsOf(ordinalOf(searchStrategies[i].description), replies[i],
                              originalTrack),
                      searchStrategies[i].description))
         \o ExpectedFrom(i + 1)

IdsOf(tracks) == [ k \in 1..Len(tracks) |-> tracks[k].id ]

Sourced(tracks) == [ k \in 1..Len(tracks) |-> <<tracks[k].id, tracks[k]._strategy>> ]

\* The lower-cased title and the lower-cased primary artist of each track.
PairsOf(tracks) ==
    [ k \in 1..Len(tracks) |->
        <<toLowerCase(tracks[k].name), toLowerCase(tracks[k].artists[1])>> ]

\* The limit a route applies to the ranked list: 5 on /api/similar-song,
\* the query's limit (9 when absent) on /api/recommendations.
RequestedLimit == IF req.route = "similar-song" THEN 5 ELSE limitOf(req)

\* C1: for every track with a title and a primary artist, popularity and
\* duration present or missing, and for every outcome of the random draws,
\* the seven [0,1] fields of the result are within [0,1] and tempo is within
\* [60,200].
C1_FeaturesInRange ==
    DOMAIN features # {} =>
        /\ \A k \in KeySet \ {"tempo", "loudness"} :
              features[k] >= 0 /\ features[k] <= Unit
        /\ features.tempo >= 60 * Unit
        /\ features.tempo <= 200 * Unit

\* An energetic title, popularity and duration missing, the draws at their
\* ends: speechiness came down to 0 and tempo went above 170.
C1_Witness ==
    /\ DOMAIN features # {}
    /\ trackData.popularity = Undefined
    /\ trackData.duration_ms = Undefined
    /\ features.speechiness = 0
    /\ features.tempo > 170 * Unit

\* C2: no track of the list the aggregation returns, nor of the candidates
\* it gathers, has the seed track's identifier.
C2_SeedExcluded ==
    Resolving =>
        /\ \A k \in 1..Len(allCandidates) : allCandidates[k].id # originalTrack.id
        /\ \A k \in 1..Len(sortedCandidates) : sortedCandidates[k].id # originalTrack.id
        /\ pc = "done" =>
              \A k \in 1..Len(response.similarTracks) :
                 response.similarTracks[k].id # originalTrack.id

\* The second strategy's reply held the seed itself, and the call returned
\* other tracks of that reply.
C2_Witness ==
    /\ Returned
    /\ replies[2] = "B"
    /\ \E k \in 1..Len(response.similarTracks) :
          response.similarTracks[k].id = CaseTwin.id

\* C3: whatever strategies fail, every strategy is executed, the call
\* succeeds, and the candidates are exactly the hits of the strategies that
\* did not fail, in order; a failing strategy adds none.
C3_FailuresAbsorbed ==
    Resolving =>
        /\ Sourced(allCandidates) = ExpectedFrom(1)
        /\ pc = "search" => si = Len(replies) + 1
        /\ pc = "done" =>
              /\ Len(replies) = Len(searchStrategies)
              /\ response.status = 200

\* Two of five strategies failed, one of them on a hit without artists, and
\* the call returned candidates of the other three.
C3_Witness ==
    /\ Returned
    /\ Len(replies) = 5
    /\ Cardinality({ i \in 1..5 : Failing(i) }) = 2
    /\ replies[4] = "B"
    /\ Len(response.similarTracks) > 0

\* C4: with the seed fetched and every strategy's query failing, the call
\* answers a success with an empty list of similar tracks.
C4_AllFailedIsEmptySuccess ==
    (Returned /\ \A i \in 1..Len(replies) : Failing(i)) =>
        /\ response.status = 200
        /\ response.similarTracks = <<>>

\* /api/similar-song with five strategies, all failing, each kind of
\* failure among them.
C4_Witness ==
    /\ Returned
    /\ req.route = "similar-song"
    /\ Len(replies) = 5
    /\ \A i \in 1..5 : Failing(i)
    /\ { replies[i] : i \in 1..5 } = SearchTags \ {"A"}

\* C5: a call that names a seed ends in an error response if and only if
\* the token or the seed track could not be obtained.
C5_ErrorIffSeedUnresolved ==
    (pc = "done" /\ req.trackId # Undefined) =>
        (response.status # 200 <=>
            (tokenReply \in FailureTags \/ trackReply \in FailureTags))

\* C6: no two candidates of the deduplicated list have the same lower-cased
\* title and the same lower-cased primary artist, and each one kept is the
\* first gathered with its pair, that is the first in strategy order and,
\* within a strategy, in its reply.
C6_FirstOfEachPairKept ==
    Returned =>
        \A all \in { PairsOf(allCandidates) } :
        \A kept \in { PairsOf(sortedCandidates) } :
           /\ \A i, j \in 1..Len(kept) : kept[i] = kept[j] => i = j
           /\ \A i \in 1..Len(kept) :
                 sortedCandidates[i] =
                    allCandidates[CHOOSE k \in 1..Len(all) :
                                     /\ all[k] = kept[i]
                                     /\ \A l \in 1..(k - 1) : all[l] # kept[i]]

\* The first strategy returned Hit(1, 1), the second its twin in another
\* letter case and Hit(1, 1) again: one entry is left, from the first
\* strategy.
C6_Witness ==
    /\ Returned
    /\ Cardinality({ k \in 1..Len(allCandidates) :
                        allCandidates[k].id \in { Hit(1, 1).id, CaseTwin.id } }) = 3
    /\ \E i \in 1..Len(sortedCandidates) :
          /\ sortedCandidates[i].id = Hit(1, 1).id
          /\ sortedCandidates[i]._strategy = Descriptions[1]
    /\ \A i \in 1..Len(sortedCandidates) : sortedCandidates[i].id # CaseTwin.id

\* C7: the list a successful call returns is in non-increasing order of
\* similarity score.
C7_SortedByScore ==
    Returned =>
        \A i \in 1..(Len(response.similarTracks) - 1) :
           response.similarTracks[i]._similarity >=
              response.similarTracks[i + 1]._similarity

\* The candidates were gathered out of order and the returned list has
\* different scores at its ends.
C7_Witness ==
    /\ Returned
    /\ Len(response.similarTracks) >= 3
    /\ response.similarTracks[1]._similarity >
          response.similarTracks[Len(response.similarTracks)]._similarity
    /\ \E k \in 1..(Len(allCandidates) - 1) :
          allCandidates[k]._similarity < allCandidates[k + 1]._similarity

\* The place of a ranked candidate among the candidates gathered.
GatheredAt(track) == CHOOSE k \in 1..Len(allCandidates) : allCandidates[k] = track

\* C8, as stated: candidates with equal scores are ordered by the ordinal of
\* their strategy and, within a strategy, by identifier ascending.
C8_TiesByPriorityThenId ==
    Returned =>
        \A i \in 1..(Len(sortedCandidates) - 1) :
           sortedCandidates[i]._similarity = sortedCandidates[i + 1]._similarity =>
              \/ ordinalOf(sortedCandidates[i]._strategy) <
                    ordinalOf(sortedCandidates[i + 1]._strategy)
              \/ /\ sortedCandidates[i]._strategy = sortedCandidates[i + 1]._strategy
                 /\ sortedCandidates[i].id < sortedCandidates[i + 1].id

\* C8, amended: candidates with equal scores are ordered by the ordinal of
\* their strategy and, within a strategy, by their place in its reply:
\* they stay in the order in which they were gathered.
C8_TiesKeepGatheredOrder ==
    Returned =>
        \A i, j \in 1..Len(sortedCandidates) :
           (i < j /\ sortedCandidates[i]._similarity = sortedCandidates[j]._similarity) =>
              /\ ordinalOf(sortedCandidates[i]._strategy) <=
                    ordinalOf(sortedCandidates[j]._strategy)
              /\ GatheredAt(sortedCandidates[i]) < GatheredAt(sortedCandidates[j])

\* The first strategy returned two tracks of equal score, the larger
\* identifier first, and they are ranked in that order.
C8_Witness ==
    /\ Returned
    /\ \E i \in 1..(Len(sortedCandidates) - 1) :
          /\ sortedCandidates[i].id = TieHigh.id
          /\ sortedCandidates[i + 1].id = TieLow.id
          /\ sortedCandidates[i]._similarity = sortedCandidates[i + 1]._similarity

C10_LowLimitRejected ==
    (req.route = "recommendations" /\ req.limit # Undefined /\ req.limit[1] < 1) =>
        /\ upstream = <<>>
        /\ pc = "done" => response.status = 400


\* The reference formula, in units of 1/Unit: 1.0, minus 0.3 for the seed's
\* primary artist (case-insensitive), minus 0.1 * min(|popularity
\* difference| / 100, 1), minus 0.1 * min(|duration difference| / seed
\* duration, 0.5), plus 0.1 for a preview, plus 0.05 for the same explicit
\* flag, floored at 0.
ReferenceScore(candidate, seed) ==
    LET artistPenalty ==
            IF toLowerCase(candidate.artists[1]) = toLowerCase(seed.artists[1])
            THEN 3 * (Unit \div 10) ELSE 0
        popularityPenalty ==
            Min(Abs(candidate.popularity[1] - seed.popularity[1]), 100) * (Unit \div 1000)
        durationPenalty ==
            Min((Abs(candidate.duration_ms[1] - seed.duration_ms[1]) * (Unit \div 10))
                    \div seed.duration_ms[1],
                Unit \div 20)
        previewBonus == IF candidate.preview_url # Undefined THEN Unit \div 10 ELSE 0
        explicitBonus == IF candidate.explicit = seed.explicit THEN Unit \div 20 ELSE 0
    IN  Max(0, Unit - artistPenalty - popularityPenalty - durationPenalty
                    + previewBonus + explicitBonus)

\* C11: every similarity score lies in [0,1], whatever the artists, the
\* popularities (0..100), the durations, the preview and the explicit flags.
C11_ScoreInUnitInterval ==
    score # <<>> => score[1] >= 0 /\ score[1] <= Unit

\* C12: calculateSimilarityScore equals the reference formula for every
\* candidate and seed with popularities in 0..100 and a seed duration > 0.
C12_ScoreIsReference ==
    score # <<>> => score[1] = ReferenceScore(candidateTrack, seedTrack)

\* A scored candidate by the seed's artist spelled in another letter case,
\* with a duration difference above half the seed's duration, a popularity
\* difference of 100 and a preview.
C12_Witness ==
    /\ score # <<>>
    /\ candidateTrack.artists[1] # seedTrack.artists[1]
    /\ toLowerCase(candidateTrack.artists[1]) = toLowerCase(seedTrack.artists[1])
    /\ 2 * Abs(candidateTrack.duration_ms[1] - seedTrack.duration_ms[1])
            > seedTrack.duration_ms[1]
    /\ Abs(candidateTrack.popularity[1] - seedTrack.popularity[1]) = 100
    /\ candidateTrack.preview_url # Undefined
    /\ score[1] = 65000

\* The seed track of the end-to-end scenario.
HappyDanceParty ==
    [ name        |-> <<"H","a","p","p","y"," ","D","a","n","c","e"," ","P","a","r","t","y">>,
      artists     |-> << <<"D","J"," ","T","e","s","t">> >>,
      popularity  |-> Some(80),
      duration_ms |-> Some(200000) ]

\* C13: for "Happy Dance Party" by "DJ Test", popularity 80, duration
\* 200000 ms, the estimated vector has energy >= 0.8, danceability >= 0.8
\* and tempo >= 128, whatever the random draws.
C13_HappyDancePartyFloors ==
    (DOMAIN features # {} /\ trackData = HappyDanceParty) =>
        /\ features.energy >= 8 * (Unit \div 10)
        /\ features.danceability >= 8 * (Unit \div 10)
        /\ features.tempo >= 128 * Unit

\* The searches issued and not yet answered.
InFlight == Len(SelectSeq(upstream, LAMBDA what : what = "search")) - Len(replies)

\* C15: the queries of all generated strategies are issued without waiting
\* for each other's responses: before the first response is taken, the
\* query of every strategy is in flight.
C15_QueriesFanOut ==
    (pc = "search" /\ replies = <<>>) => InFlight = Len(searchStrategies)

\* What the code does instead: never more than one search is in flight.
OneSearchAtATime == InFlight <= 1

\* C16: a resolution call always eventually returns, even when a catalog
\* query never responds.
C16_AlwaysReturns == (pc = "search") ~> (pc = "done")

\* The tracks the replies add, strategy by strategy, in the order of the
\* strategies.
RECURSIVE GatheredInStrategyOrder(_)
GatheredInStrategyOrder(i) ==
    IF i > Len(replies) THEN <<>>
    ELSE strategyTracks(replies[i], searchStrategies[i], originalTrack, audioFeatures)
         \o GatheredInStrategyOrder(i + 1)

GeneratedDescriptions ==
    [ k \in 1..Len(searchStrategies) |-> searchStrategies[k].description ]

\* The decimal digits of a natural number.
RECURSIVE DecimalOf(_)
DecimalOf(n) ==
    IF n < 10 THEN << Digits[n + 1] >>
    ELSE Append(DecimalOf(n \div 10), Digits[(n % 10) + 1])

YearKnown == originalTrack.album.release_date # Undefined

\* The strategies were just generated: the first search is in flight.
Generated == pc = "search" /\ replies = <<>>

\* The seed's release year: the number whose digits start the release date.
SeedYear ==
    CHOOSE y \in 1900..2099 :
        DecimalOf(y) = SubSeq(originalTrack.album.release_date[1], 1, 4)

\* C18: the same-decade strategy is emitted if and only if the seed's release
\* year is known: five strategies when it is, four when it is not, always in
\* the order genre, same-artist, keyword, same-decade, same-album; no emitted
\* strategy has a null or empty query; for a known year y the decade range is
\* floor(y/10)*10 through floor(y/10)*10 + 9.
C18_DecadeIffYearKnown ==
    Generated =>
        /\ GeneratedDescriptions
              = IF YearKnown THEN Descriptions
                ELSE << Descriptions[1], Descriptions[2], Descriptions[3], Descriptions[5] >>
        /\ \A k \in 1..Len(searchStrategies) :
              /\ searchStrategies[k].query # Undefined
              /\ IF searchStrategies[k].query[1].field = "genre"
                 THEN searchStrategies[k].query[1].value # ""
                 ELSE Len(searchStrategies[k].query[1].value) > 0
        /\ YearKnown =>
              /\ searchStrategies[4].query[1].field = "year"
              /\ searchStrategies[4].query[1].value
                    = << SeedYear - (SeedYear % 10), SeedYear - (SeedYear % 10) + 9 >>

\* Strategies generated for a seed released in 1987: the decade is 1980-1989.
C18_Witness ==
    /\ Generated
    /\ YearKnown
    /\ SeedYear = 1987
    /\ Len(searchStrategies) = 5
    /\ searchStrategies[4].query[1].value = << 1980, 1989 >>

\* C19: every generated strategy's query excludes the seed: the genre,
\* keyword and same-decade strategies exclude the seed's primary artist, the
\* same-artist and same-album strategies exclude the seed's title.
C19_EveryQueryExcludesSeed ==
    Resolving =>
        \A k \in 1..Len(searchStrategies) :
            LET strategy == searchStrategies[k]
            IN  IF strategy.description
                     \in { Descriptions[1], Descriptions[3], Descriptions[4] }
                THEN /\ strategy.query[1].notField = "artist"
                     /\ strategy.query[1].notValue = originalTrack.artists[1]
                ELSE /\ strategy.description \in { Descriptions[2], Descriptions[5] }
                     /\ strategy.query[1].notField = "track"
                     /\ strategy.query[1].notValue = originalTrack.name

\* Strategies generated for a seed without a release year: four queries,
\* each with its exclusion.
C19_Witness ==
    /\ Resolving
    /\ ~YearKnown
    /\ Len(searchStrategies) = 4
    /\ searchStrategies[4].query[1].notValue = originalTrack.name

\* getSpotifyToken is called: a request that is not answered at once arrives.
TokenCalled == pc = "idle" /\ pc' \in { "token", "track" }

\* C20: getSpotifyToken returns the cached token without contacting the auth
\* endpoint if and only if a token is cached and the current time is more
\* than 300,000 ms before its recorded expiry; otherwise it requests a new
\* token, and a token that arrives is stored with expiry = now +
\* expires_in * 1000.  A token served from the cache is thus never within
\* five minutes of its expiry.
C20_CacheOnlyWithMargin ==
    [][ /\ TokenCalled =>
            IF spotifyAccessToken # "" /\ tokenExpiryTime - now > 300000
            THEN tokenReply' = "cached" /\ upstream' = << "track" >>
            ELSE tokenReply' = "" /\ upstream' = << "token" >>
        /\ (pc = "token" /\ tokenReply' = "ok") =>
            /\ spotifyAccessToken' # ""
            /\ \E e \in TokenLifetimes : tokenExpiryTime' = now + e * 1000
        /\ (pc = "token" /\ tokenReply' \in FailureTags) =>
            UNCHANGED << spotifyAccessToken, tokenExpiryTime >>
      ]_vars

\* A request served from the cache after time has passed since the token
\* was stored, with a token of the shortest lifetime that the cache serves.
C20_Witness ==
    /\ tokenReply = "cached"
    /\ upstream = << "track" >>
    /\ now > 0
    /\ tokenExpiryTime - now = 300500

\* A cached token exactly 300,000 ms before its expiry is not served: a new
\* one is requested.
C20_AtTheMargin ==
    /\ pc = "token"
    /\ spotifyAccessToken # ""
    /\ tokenExpiryTime - now = 300000

\* C21: deduplication, sorting and truncation start only after every
\* strategy's query has completed, with a success or a failure: while a
\* strategy is unanswered nothing is ranked or returned, and the step that
\* ranks is the one that takes the last strategy's reply.
C21_RankAfterAllReplies ==
    [][ Resolving' =>
          /\ (Len(replies') < Len(searchStrategies'))
                => (sortedCandidates' = <<>> /\ response' = <<>> /\ pc' = "search")
          /\ (response' # response /\ response' # <<>>)
                => /\ Len(replies') = Len(searchStrategies)
                   /\ \A k \in 1..Len(searchStrategies) : replies'[k] \in SearchTags
      ]_vars

\* A call that returned although its first strategy had already yielded
\* candidates and later strategies failed.
C21_Witness ==
    /\ Returned
    /\ Len(replies) = Len(searchStrategies)
    /\ replies[1] = "A"
    /\ \E k \in 2..Len(replies) : replies[k] \in FailureTags
    /\ Len(sortedCandidates) > 0

\* The genre rules as a list, each a condition and its genre, the last one
\* the default.
GenreRules(f) ==
    << << f.energy * 10 > 8 * Unit /\ f.danceability * 10 > 7 * Unit, "electronic dance" >>,
       << f.energy * 10 > 7 * Unit /\ f.tempo > 140 * Unit, "rock" >>,
       << f.acousticness * 10 > 6 * Unit, "folk" >>,
       << f.danceability * 10 > 7 * Unit, "pop" >>,
       << f.valence * 10 < 3 * Unit, "indie" >>,
       << f.energy * 10 < 4 * Unit, "ambient" >>,
       << TRUE, "pop" >> >>

FirstMatching(rules) ==
    rules[CHOOSE i \in 1..Len(rules) :
            rules[i][1] /\ \A j \in 1..(i - 1) : ~rules[j][1]][2]

\* C22: getGenreFromFeatures returns the genre of the first matching rule in
\* the order electronic dance, rock, folk, pop, indie, ambient, and "pop"
\* when none matches.
C22_FirstMatchingGenre ==
    genre # "" => genre = FirstMatching(GenreRules(genreFeatures))

\* A vector at the thresholds of the first four rules and below those of
\* the last two: only the indie rule matches.
C22_Witness ==
    /\ genre = "indie"
    /\ genreFeatures.energy = 8 * (Unit \div 10)
    /\ genreFeatures.danceability = 7 * (Unit \div 10)
    /\ genreFeatures.tempo = 140 * Unit
    /\ genreFeatures.acousticness = 6 * (Unit \div 10)

\* The keyword rules as a table: for each set, in the order energetic,
\* chill, sad, happy, romantic, the fields it adjusts, each with the amount
\* added and the bound the sum is clamped to (from above or from below).  r is
\* the draw of the energetic tempo, 130 + 40 * r / 10000.
KeywordRules(r) ==
    << [ set |-> "energetic",
         adjust |-> << << "energy", 3 * (Unit \div 10), "atMost", 9 * (Unit \div 10) >>,
                       << "danceability", 2 * (Unit \div 10), "atMost", 9 * (Unit \div 10) >>,
                       << "tempo", 0, "atLeast", 130 * Unit + 40 * (Unit \div 10000) * r >> >> ],
       [ set |-> "chill",
         adjust |-> << << "energy", 0 - 3 * (Unit \div 10), "atLeast", Unit \div 10 >>,
                       << "acousticness", 3 * (Unit \div 10), "atMost", 8 * (Unit \div 10) >>,
                       << "tempo", 0 - 30 * Unit, "atLeast", 70 * Unit >> >> ],
       [ set |-> "sad",
         adjust |-> << << "valence", 0 - 4 * (Unit \div 10), "atLeast", Unit \div 10 >>,
                       << "energy", 0 - 2 * (Unit \div 10), "atLeast", 2 * (Unit \div 10) >> >> ],
       [ set |-> "happy",
         adjust |-> << << "valence", 3 * (Unit \div 10), "atMost", 9 * (Unit \div 10) >>,
                       << "energy", Unit \div 10, "atMost", 8 * (Unit \div 10) >> >> ],
       [ set |-> "romantic",
         adjust |-> << << "valence", 2 * (Unit \div 10), "atMost", 8 * (Unit \div 10) >>,
                       << "acousticness", 2 * (Unit \div 10), "atMost", 7 * (Unit \div 10) >> >> ] >>

\* One adjustment on a vector: add, then clamp on its own.
Adjusted(f, a) ==
    [ f EXCEPT ![a[1]] = IF a[3] = "atMost" THEN Min(a[4], @ + a[2])
                         ELSE Max(a[4], @ + a[2]) ]

RECURSIVE AdjustAll(_, _)
AdjustAll(f, adjustments) ==
    IF adjustments = <<>> THEN f
    ELSE AdjustAll(Adjusted(f, Head(adjustments)), Tail(adjustments))

\* The rules folded over a vector, the rules of the matched sets only.
RECURSIVE FoldRules(_, _, _)
FoldRules(f, rules, matched) ==
    IF rules = <<>> THEN f
    ELSE FoldRules(IF matched[Head(rules).set] THEN AdjustAll(f, Head(rules).adjust) ELSE f,
                   Tail(rules), matched)

C24_PopularityNeverLowers ==
    (DOMAIN stages # {} /\ orDefault(trackData.popularity, 50) > 70) =>
        /\ stages.popularity.danceability >= stages.duration.danceability
        /\ stages.popularity.energy >= stages.duration.energy

\* C25: the loudness generateIntelligentFeatures returns is 0 for every
\* track and every outcome of the draws: the baseline of -8.0 goes through
\* the jitter and the clamp to [0,1] of the [0,1] fields.
C25_LoudnessIsZero ==
    DOMAIN features # {} =>
        /\ stages.popularity.loudness = 0 - 8 * Unit
        /\ features.loudness = 0

\* An estimate whose loudness draw was the largest one.
C25_Witness ==
    /\ DOMAIN features # {}
    /\ rng["loudness"] = 9999
    /\ features.loudness = 0

\* C26: deduplication removes a candidate only if an earlier candidate has
\* the same lower-cased title and the same lower-cased primary artist: a
\* gathered candidate whose pair no earlier candidate has is in the ranked
\* list, also when a title or an artist's name holds the separator "-".
C26_RemovedOnlyIfSamePair ==
    Returned =>
        \A k \in 1..Len(allCandidates) :
            (\A j \in 1..(k - 1) : PairsOf(allCandidates)[j] # PairsOf(allCandidates)[k])
                => \E i \in 1..Len(sortedCandidates) :
                      sortedCandidates[i].id = allCandidates[k].id

\* C27: when a token request fails (network error, non-success status or
\* unparsable body), getSpotifyToken leaves the cached token and its expiry
\* as they were and propagates the error: its caller answers 500 without
\* any further upstream request.
C27_FailureKeepsCache ==
    [][ (pc = "token" /\ tokenReply' \in FailureTags) =>
          /\ spotifyAccessToken' = spotifyAccessToken
          /\ tokenExpiryTime' = tokenExpiryTime
          /\ response' = ErrorResponse(500)
          /\ upstream' = upstream
      ]_vars

\* A token request failed while an earlier token, too old to be served, was
\* still in the cache.
C27_Witness ==
    /\ tokenReply \in FailureTags
    /\ spotifyAccessToken # ""
    /\ tokenExpiryTime > 0
    /\ response = ErrorResponse(500)

\* The token requests issued and not yet answered.
TokenRequestsInFlight == { h \in Callers : tokenCalls[h] = "awaiting" }

\* C28: at most one token request to the auth endpoint is in flight at any
\* time: of several callers that find no valid token cached, only the first
\* issues a request.
C28_OneTokenRequestInFlight == Cardinality(TokenRequestsInFlight) <= 1

\* The hybrid route has answered after it fetched the track.
HybridAnswered == pc = "done" /\ req.route = "audio-features" /\ trackReply = "ok"

\* The extraction ran through: the audio file was downloaded and the
\* extraction endpoint answered with features.
Extracted == originalTrack.preview_url # Undefined /\ replies = << "ok", "ok" >>

SimilarReturned ==
    /\ pc = "done"
    /\ req.route = "similar-song"
    /\ response.status = 200
    /\ response.similarTrack # <<>>

\* C30: the similar track that the ReccoBeats version's route
\* /api/similar-song/:trackId returns is never the seed: its id differs from
\* the requested trackId, on the path through the ReccoBeats
\* recommendation and on the keyword fallback path.
C30_SimilarIsNotSeed ==
    SimilarReturned => response.similarTrack[1].id # req.trackId[1]

ViaFallback == \E i \in 1..Len(upstream) : upstream[i] = "fallback"

\* The part that holds: a similar track found by the keyword search is not
\* the seed.
FallbackSkipsSeed ==
    (SimilarReturned /\ ViaFallback)
        => response.similarTrack[1].id # req.trackId[1]

\* The keyword search listed the seed first and the route returned the next
\* hit.
FallbackSkippedSeed ==
    /\ SimilarReturned
    /\ ViaFallback
    /\ response.similarTrack[1] = Hit(1, 1)
====
